---- MODULE Spec2Model ----
(***************************************************************************)
(* Attendance upload and queries of the employee productivity tracker.     *)
(*                                                                         *)
(* The upload handler (api/controllers/uploadController.js) is an async    *)
(* function: between two awaits other requests run, so the handler is      *)
(* modelled as a process whose steps are its database operations, each     *)
(* step also doing the synchronous code that follows it.  Hours are kept   *)
(* in hundredths of an hour (8.5h = 850), times of day in minutes, days as *)
(* the number of days since 1899-12-30.  The queries (api/routes) are one  *)
(* step each: a read of the store and the statistics computed from it.     *)
(***************************************************************************)
EXTENDS Integers, Sequences, FiniteSets, Bags, TLC

(***************************************************************************)
(* Bounds of the model.                                                    *)
(***************************************************************************)
NumUploads == 2        \* upload requests that can be in flight together
MaxRows == 2           \* data rows of a worksheet in the concurrent runs
MaxRequests == 2       \* upload requests over one behaviour
MaxQueries == 2        \* queries over one behaviour
MaxOverrideRequests == 3   \* upload requests over one behaviour of the override runs
MaxOverrideRows == 1   \* data rows of a worksheet in the override runs
MaxSkipRows == 3       \* data rows of a worksheet in the runs with rows to skip
MaxSkipRequests == 1   \* upload requests over one behaviour of the runs with rows to skip
MaxYearRows == 3       \* data rows of a worksheet in the runs of the queries
MaxYearRequests == 1   \* upload requests over one behaviour of the runs of the queries
MaxDateRows == 1       \* data rows of a worksheet in the runs of the date cells
MaxDateRequests == 1   \* upload requests over one behaviour of the runs of the date cells
MaxCompareRows == 4    \* data rows of a worksheet in the runs of the year comparison
MaxCompareRequests == 1    \* upload requests over one behaviour of the runs of the year comparison
MaxFrameRows == 1      \* data rows of a worksheet in the runs of two partitions
MaxFrameRequests == 3  \* upload requests over one behaviour of the runs of two partitions

Uploads == 1..NumUploads

(***************************************************************************)
(* Values of worksheet cells.                                              *)
(***************************************************************************)
NoName == ""                       \* empty employee-name cell
NoTime == 0 - 1                    \* empty time cell: null, undefined or ""
BadTime == 0 - 2                   \* a string moment cannot read as HH:mm
NoDay == 0 - 1000000000            \* no date could be parsed; no cell stands for this day
NoId == 0                          \* employeeId not assigned yet
NoDocId == <<0, 0>>                \* record not stored yet, it has no _id

\* A date cell: its type and the day it stands for, as days since 1899-12-30.
\* A number cell holds its value in quarters of a day, so that a serial number
\* can carry a time of day: 45000.75 is NumberCell(180003).
Quarter == 4
NumberCell(q) == [type |-> "number", n |-> q]     \* spreadsheet serial number q/4
NumberDate(n) == NumberCell(n * Quarter)          \* spreadsheet serial day, a whole number
ObjectDate(n) == [type |-> "date", n |-> n]       \* Date whose local calendar day is n
StringDate(n) == [type |-> "string", n |-> n]     \* string that reads as day n in a format
BadString == [type |-> "string", n |-> NoDay]     \* string that matches no format
OtherDate == [type |-> "other", n |-> 0]          \* boolean, object, ...
EmptyDate == [type |-> "empty", n |-> 0]          \* falsy cell

\* 45000 is Wednesday 2023-03-15
Sun == NumberDate(45004)
Mon == NumberDate(45005)
Sat == NumberDate(45010)

T0900 == 540
T1730 == 1050

Row(name, dateValue, inTime, outTime) ==
  [employeeName |-> name, dateValue |-> dateValue, inTime |-> inTime, outTime |-> outTime]

(***************************************************************************)
(* Helpers (api/utils/helpers.js).                                         *)
(***************************************************************************)
DayNames == <<"Sunday", "Monday", "Tuesday", "Wednesday", "Thursday", "Friday", "Saturday">>

workdayHours ==
  [d \in {DayNames[i] : i \in 1..7} |->
     CASE d = "Saturday" -> 400
       [] d = "Sunday" -> 0
       [] OTHER -> 850]

\* mutant: Saturday taken for a day off
getExpectedHoursNoSaturday(dayOfWeek) ==
  IF dayOfWeek \in DOMAIN workdayHours /\ dayOfWeek # "Saturday" THEN workdayHours[dayOfWeek] ELSE 0

getExpectedHours(dayOfWeek) ==
  IF dayOfWeek \in DOMAIN workdayHours THEN workdayHours[dayOfWeek] ELSE 0

\* moment(x, 'HH:mm').isValid()
TimeIsValid(t) == t \in 0..1439

\* parseFloat((minutes / 60).toFixed(2)) in hundredths; minutes*5/3 is never a tie
ToFixed2(minutes) ==
  IF minutes >= 0 THEN (minutes * 10 + 3) \div 6
  ELSE 0 - (((0 - minutes) * 10 + 3) \div 6)

Max(a, b) == IF a >= b THEN a ELSE b

\* mutant: the difference is not floored at 0
calculateWorkedHoursNoClamp(inTime, outTime) ==
  IF inTime = NoTime \/ outTime = NoTime THEN 0
  ELSE IF ~TimeIsValid(inTime) \/ ~TimeIsValid(outTime) THEN 0
  ELSE ToFixed2(outTime - inTime)

calculateWorkedHours(inTime, outTime) ==
  IF inTime = NoTime \/ outTime = NoTime THEN 0
  ELSE IF ~TimeIsValid(inTime) \/ ~TimeIsValid(outTime) THEN 0
  ELSE Max(0, ToFixed2(outTime - inTime))

(***************************************************************************)
(* Row processing of uploadAttendance (the worksheet.eachRow callback).    *)
(***************************************************************************)
\* !dateValue: an empty cell, or the number 0
Falsy(dateValue) ==
  dateValue.type = "empty" \/ (dateValue.type = "number" /\ dateValue.n = 0)

\* a Date holds at most 100,000,000 days on either side of 1970-01-01, which is
\* day 25569; beyond that getTime() is NaN
MaxDateDays == 100000000
UnixEpochDay == 25569
DateIsValid(day) ==
  day - UnixEpochDay >= 0 - MaxDateDays /\ day - UnixEpochDay <= MaxDateDays

\* mutant: the serial number is rounded towards zero
ParseDateTruncating(dateValue) ==
  CASE dateValue.type = "date" -> dateValue.n
    [] dateValue.type = "string" -> dateValue.n
    [] dateValue.type = "number" ->
         LET days == IF dateValue.n >= 0 THEN dateValue.n \div Quarter
                     ELSE 0 - ((0 - dateValue.n) \div Quarter)
         IN  IF DateIsValid(days) THEN days ELSE NoDay
    [] OTHER -> NoDay

\* mutant: a string in no format is read leniently, as the epoch
ParseDateLenient(dateValue) ==
  CASE dateValue.type = "date" -> dateValue.n
    [] dateValue.type = "string" -> IF dateValue.n = NoDay THEN 0 ELSE dateValue.n
    [] dateValue.type = "number" ->
         LET days == dateValue.n \div Quarter
         IN  IF DateIsValid(days) THEN days ELSE NoDay
    [] OTHER -> NoDay

\* the date of a cell as days since 1899-12-30, or NoDay when the row is skipped
ParseDate(dateValue) ==
  CASE dateValue.type = "date" -> dateValue.n
    [] dateValue.type = "string" -> dateValue.n
    [] dateValue.type = "number" ->
         LET days == dateValue.n \div Quarter            \* Math.floor(dateValue)
         IN  IF DateIsValid(days) THEN days ELSE NoDay
    [] OTHER -> NoDay

\* moment.utc(parsedDate).format('dddd'); 1899-12-30 was a Saturday
DayOfWeek(day) == DayNames[((day + 6) % 7) + 1]

\* mutant: the hours of the punches are computed before the day is looked at
ClassifyStatusHoursFirst(dayOfWeek, inTime, outTime) ==
  LET isHoliday == dayOfWeek = "Sunday"
      w == calculateWorkedHours(inTime, outTime)
  IN  IF isHoliday
        THEN [status |-> "Holiday", isLeave |-> FALSE, workedHours |-> w]
      ELSE IF w = 0
        THEN [status |-> "Leave", isLeave |-> TRUE, workedHours |-> w]
        ELSE [status |-> "Present", isLeave |-> FALSE, workedHours |-> w]

\* mutant: isLeave is set from the punches before the day is looked at
ClassifyStatusLeaveFirst(dayOfWeek, inTime, outTime) ==
  LET isHoliday == dayOfWeek = "Sunday"
      w == calculateWorkedHours(inTime, outTime)
  IN  IF isHoliday
        THEN [status |-> "Holiday", isLeave |-> (w = 0), workedHours |-> 0]
      ELSE IF w = 0
        THEN [status |-> "Leave", isLeave |-> TRUE, workedHours |-> w]
        ELSE [status |-> "Present", isLeave |-> FALSE, workedHours |-> w]

\* mutant: the Weekend branch takes every day of the weekend that is left
ClassifyStatusWeekend(dayOfWeek, inTime, outTime) ==
  LET isWeekend == dayOfWeek = "Saturday" \/ dayOfWeek = "Sunday"
      isHoliday == dayOfWeek = "Sunday"
      w == calculateWorkedHours(inTime, outTime)
  IN  IF isHoliday
        THEN [status |-> "Holiday", isLeave |-> FALSE, workedHours |-> 0]
      ELSE IF isWeekend
        THEN [status |-> "Weekend", isLeave |-> FALSE, workedHours |-> 0]
      ELSE IF w = 0
        THEN [status |-> "Leave", isLeave |-> TRUE, workedHours |-> w]
        ELSE [status |-> "Present", isLeave |-> FALSE, workedHours |-> w]

ClassifyStatus(dayOfWeek, inTime, outTime) ==
  LET isWeekend == dayOfWeek = "Saturday" \/ dayOfWeek = "Sunday"
      isHoliday == dayOfWeek = "Sunday"
  IN  IF isHoliday
        THEN [status |-> "Holiday", isLeave |-> FALSE, workedHours |-> 0]
      ELSE IF isWeekend /\ dayOfWeek = "Sunday"
        THEN [status |-> "Weekend", isLeave |-> FALSE, workedHours |-> 0]
      ELSE IF inTime = NoTime \/ outTime = NoTime
        THEN [status |-> "Leave", isLeave |-> TRUE, workedHours |-> 0]
      ELSE LET w == calculateWorkedHours(inTime, outTime)
           IN  IF w = 0
                 THEN [status |-> "Leave", isLeave |-> TRUE, workedHours |-> w]
                 ELSE [status |-> "Present", isLeave |-> FALSE, workedHours |-> w]

\* the records one row adds to attendanceData: none or one
BuildRow(row, monthYear) ==
  IF row.employeeName = NoName \/ Falsy(row.dateValue) THEN <<>>
  ELSE IF ParseDate(row.dateValue) = NoDay THEN <<>>
  ELSE LET day == ParseDate(row.dateValue)
           dayOfWeek == DayOfWeek(day)
           c == ClassifyStatus(dayOfWeek, row.inTime, row.outTime)
       IN  << [id |-> NoDocId,
               employeeName |-> row.employeeName,
               employeeId |-> NoId,
               date |-> day,
               inTime |-> row.inTime,
               outTime |-> row.outTime,
               workedHours |-> c.workedHours,
               isLeave |-> c.isLeave,
               isHoliday |-> (dayOfWeek = "Sunday"),
               dayOfWeek |-> dayOfWeek,
               monthYear |-> monthYear,
               expectedHours |-> getExpectedHours(dayOfWeek),
               status |-> c.status] >>

\* mutant: a row that builds no record ends the loop
RECURSIVE BuildRowsUntilSkip(_, _)
BuildRowsUntilSkip(rows, monthYear) ==
  IF rows = <<>> \/ BuildRow(Head(rows), monthYear) = <<>> THEN <<>>
  ELSE BuildRow(Head(rows), monthYear) \o BuildRowsUntilSkip(Tail(rows), monthYear)

RECURSIVE BuildRows(_, _)
BuildRows(rows, monthYear) ==
  IF rows = <<>> THEN <<>>
  ELSE BuildRow(Head(rows), monthYear) \o BuildRows(Tail(rows), monthYear)

\* employeesMap: the names of the records in order of first appearance
RECURSIVE EmployeeNames(_)
EmployeeNames(records) ==
  IF records = <<>> THEN <<>>
  ELSE LET rest == EmployeeNames(SubSeq(records, 1, Len(records) - 1))
           name == records[Len(records)].employeeName
       IN  IF \E i \in 1..Len(rest) : rest[i] = name THEN rest ELSE Append(rest, name)

(***************************************************************************)
(* Requests.  A request carries the multipart fields and the worksheet.    *)
(***************************************************************************)
MissingMonth == 0                  \* req.body.month undefined
Year == 2023

Request(hasFile, month, override, corrupt, rows) ==
  [hasFile |-> hasFile, month |-> month, override |-> override,
   corrupt |-> corrupt, rows |-> rows]

\* `${year}-${String(month).padStart(2, '0')}`
MonthYear(year, month) == <<year, month>>
NoMonthYear == <<0, 0>>

SeqsUpTo(S, n) == UNION {[1..k -> S] : k \in 0..n}

\* the requests over a set of rows and a set of month fields
Requests(rowSet, months, maxRows) ==
  {Request(FALSE, 3, FALSE, FALSE, <<>>), Request(TRUE, 3, TRUE, TRUE, <<>>)}
    \cup {Request(TRUE, m, o, FALSE, rows) :
            m \in months, o \in BOOLEAN, rows \in SeqsUpTo(rowSet, maxRows)}

(***************************************************************************)
(* Month statistics: uploadAttendance, GET /month, GET /previous-month.    *)
(* The records are a family: a sequence (attendanceData) or the identity   *)
(* function of a set of stored records (the result of a find).             *)
(***************************************************************************)
Family(records) == [r \in records |-> r]

\* reduce((sum, d) => sum + d.<field>, 0) over the members idx of a family of numbers
RECURSIVE Total(_, _)
Total(numbers, idx) ==
  IF idx = {} THEN 0
  ELSE LET i == CHOOSE i \in idx : TRUE
       IN  numbers[i] + Total(numbers, idx \ {i})

\* mutant: the percentage is cut after two decimals
ProductivityCut(worked, expected) ==
  IF expected > 0 THEN (worked * 10000) \div expected ELSE 0

\* parseFloat(((worked / expected) * 100).toFixed(2)), in hundredths of a percent:
\* the quotient rounded to the nearest hundredth
Productivity(worked, expected) ==
  IF expected > 0 THEN (worked * 20000 + expected) \div (2 * expected) ELSE 0

\* d.isLeave && !d.isHoliday
CountsAsLeave(record) == record.isLeave /\ ~record.isHoliday

\* the statistic of one employee name over a family of records; the sums of
\* hours are sums of hundredths, which toFixed(2) leaves as they are
EmployeeStatistic(family, employeeName) ==
  LET idx == {i \in DOMAIN family : family[i].employeeName = employeeName}
      totalExpectedHours == Total([i \in idx |-> family[i].expectedHours], idx)
      totalWorkedHours == Total([i \in idx |-> family[i].workedHours], idx)
  IN  [totalExpectedHours |-> totalExpectedHours,
       totalWorkedHours |-> totalWorkedHours,
       leavesTaken |-> Cardinality({i \in idx : CountsAsLeave(family[i])}),
       productivity |-> Productivity(totalWorkedHours, totalExpectedHours)]

\* [...new Set(records.map(d => d.employeeName))].map(employeeName => ...)
MonthStatistics(family) ==
  [employeeName \in {family[i].employeeName : i \in DOMAIN family} |->
     EmployeeStatistic(family, employeeName)]

NoStatistics == <<>>

\* what res.status(code).json({ error, monthYear, statistics }) sends
Response(code, error, monthYear) ==
  [code |-> code, error |-> error, monthYear |-> monthYear, statistics |-> NoStatistics]
NoResponse == Response(0, "", NoMonthYear)

\* the response of a successful upload
Success(monthYear, statistics) ==
  [Response(200, "", monthYear) EXCEPT !.statistics = statistics]

(***************************************************************************)
(* Calendar of the stored dates.  A date is UTC midnight of a day; $month  *)
(* and the date ranges of the queries read its proleptic Gregorian         *)
(* calendar fields.                                                        *)
(***************************************************************************)
\* year and month of a day
CivilOf(day) ==
  LET z == day - UnixEpochDay + 719468
      era == z \div 146097
      doe == z - era * 146097
      yoe == (doe - doe \div 1460 + doe \div 36524 - doe \div 146096) \div 365
      doy == doe - (365 * yoe + yoe \div 4 - yoe \div 100)
      mp == (5 * doy + 2) \div 153
      m == IF mp < 10 THEN mp + 3 ELSE mp - 9
  IN  [year |-> yoe + era * 400 + (IF m <= 2 THEN 1 ELSE 0), month |-> m]

\* the day of the first of a month; month 13 is January of the next year
FirstOfMonth(year, month) ==
  LET y == IF month > 12 THEN year + 1 ELSE year
      mo == IF month > 12 THEN month - 12 ELSE month
      yy == IF mo <= 2 THEN y - 1 ELSE y
      era == yy \div 400
      yoe == yy - era * 400
      mp == IF mo > 2 THEN mo - 3 ELSE mo + 9
      doy == (153 * mp + 2) \div 5
      doe == yoe * 365 + yoe \div 4 - yoe \div 100 + doy
  IN  era * 146097 + doe - 719468 + UnixEpochDay

(***************************************************************************)
(* State.                                                                  *)
(***************************************************************************)
VARIABLES
  attendance,       \* the Attendance collection: a set of stored records
  employees,        \* the Employee collection: names in creation order, _id = position
  pc,               \* per upload: where the handler is
  monthYear,        \* per upload: the monthYear of the request
  override,         \* per upload: override === 'true'
  existingData,     \* per upload: the existence check found a record
  worksheet,        \* per upload: the data rows of the worksheet
  attendanceData,   \* per upload: the records built from the worksheet
  empIdx,           \* per upload: position of the employee loop
  reqNo,            \* per upload: number of the request, it makes the _id of its records
  resp,             \* the last response sent by an upload
  before,           \* per upload: the partition as the existence check saw it (history)
  nreq,             \* upload requests received so far
  nquery,           \* queries answered so far
  queryResp         \* the last response of a query

vars == <<attendance, employees, pc, monthYear, override, existingData, worksheet,
          attendanceData, empIdx, reqNo, resp, before, nreq, nquery, queryResp>>

\* Attendance.find({ monthYear })
Partition(coll, my) == {r \in coll : r.monthYear = my}

\* The response of a query: the route and its parameters, the status code,
\* whether the handler read the store, the monthYear and the records it read,
\* and the statistics it sent.
QueryResponse(route, year, month, code, read, my, records, statistics) ==
  [route |-> route, year |-> year, month |-> month, code |-> code, read |-> read,
   monthYear |-> my, records |-> records, statistics |-> statistics]

NoQueryResponse == QueryResponse("", 0, 0, 0, FALSE, NoMonthYear, {}, NoStatistics)

Init ==
  /\ attendance = {}
  /\ employees = <<>>
  /\ pc = [u \in Uploads |-> "idle"]
  /\ monthYear = [u \in Uploads |-> NoMonthYear]
  /\ override = [u \in Uploads |-> FALSE]
  /\ existingData = [u \in Uploads |-> FALSE]
  /\ worksheet = [u \in Uploads |-> <<>>]
  /\ attendanceData = [u \in Uploads |-> <<>>]
  /\ empIdx = [u \in Uploads |-> 0]
  /\ reqNo = [u \in Uploads |-> 0]
  /\ resp = NoResponse
  /\ before = [u \in Uploads |-> {}]
  /\ nreq = 0
  /\ nquery = 0
  /\ queryResp = NoQueryResponse

\* the handler of upload u returns: its locals are gone
Return(u, response) ==
  /\ pc' = [pc EXCEPT ![u] = "idle"]
  /\ resp' = response
  /\ monthYear' = [monthYear EXCEPT ![u] = NoMonthYear]
  /\ override' = [override EXCEPT ![u] = FALSE]
  /\ existingData' = [existingData EXCEPT ![u] = FALSE]
  /\ worksheet' = [worksheet EXCEPT ![u] = <<>>]
  /\ attendanceData' = [attendanceData EXCEPT ![u] = <<>>]
  /\ empIdx' = [empIdx EXCEPT ![u] = 0]
  /\ reqNo' = [reqNo EXCEPT ![u] = 0]
  /\ before' = [before EXCEPT ![u] = {}]

(***************************************************************************)
(* uploadAttendance.                                                       *)
(***************************************************************************)
\* mutant: the comparison of the override field is inverted (=== for !==)
DuplicatePartitionInverted(existing, overrideTrue) == existing /\ overrideTrue

\* existingData && override !== 'true'
DuplicatePartition(existing, overrideTrue) == existing /\ ~overrideTrue

\* A request arrives and runs up to the employee loop: the validation of the
\* fields, the existence check (the only database read of this step), the
\* load of the workbook and the row loop.  maxRequests bounds the requests of
\* a behaviour.
UploadBegin(u, req, maxRequests) ==
  /\ pc[u] = "idle"
  /\ nreq < maxRequests
  /\ nreq' = nreq + 1
  /\ LET my == MonthYear(Year, req.month)
         existing == Partition(attendance, my) # {}
         data == BuildRows(req.rows, my)
     IN  IF ~req.hasFile
           THEN Return(u, Response(400, "No file provided", NoMonthYear))
         ELSE IF req.month = MissingMonth
           THEN Return(u, Response(400, "Missing parameters", NoMonthYear))
         ELSE IF req.month < 1 \/ req.month > 12
           THEN Return(u, Response(400, "Invalid month", NoMonthYear))
         ELSE IF DuplicatePartition(existing, req.override)
           THEN Return(u, Response(409, "Data already exists", my))
         ELSE IF req.corrupt
           THEN Return(u, Response(500, "Upload failed", NoMonthYear))
         ELSE IF Len(data) = 0
           THEN Return(u, Response(400, "No valid data", NoMonthYear))
         ELSE /\ pc' = [pc EXCEPT ![u] = "employeeFind"]
              /\ monthYear' = [monthYear EXCEPT ![u] = my]
              /\ override' = [override EXCEPT ![u] = req.override]
              /\ existingData' = [existingData EXCEPT ![u] = existing]
              /\ worksheet' = [worksheet EXCEPT ![u] = req.rows]
              /\ attendanceData' = [attendanceData EXCEPT ![u] = data]
              /\ empIdx' = [empIdx EXCEPT ![u] = 1]
              /\ reqNo' = [reqNo EXCEPT ![u] = nreq + 1]
              /\ before' = [before EXCEPT ![u] = Partition(attendance, my)]
              /\ resp' = resp
  /\ UNCHANGED <<attendance, employees, nquery, queryResp>>

\* Employee.findOne({ name }): the _id of the first employee of that name, or NoId
FindEmployee(coll, name) ==
  IF \E i \in 1..Len(coll) : coll[i] = name
    THEN CHOOSE i \in 1..Len(coll) : coll[i] = name /\ \A j \in 1..(i - 1) : coll[j] # name
    ELSE NoId

\* attendanceData.forEach(record => ... record.employeeId = dbEmployee._id)
AssignEmployeeId(records, name, id) ==
  [i \in 1..Len(records) |->
     IF records[i].employeeName = name
       THEN [records[i] EXCEPT !.employeeId = id]
       ELSE records[i]]

\* the end of one round of the employee loop
NextEmployee(u, records) ==
  /\ attendanceData' = [attendanceData EXCEPT ![u] = records]
  /\ IF empIdx[u] < Len(EmployeeNames(records))
       THEN /\ empIdx' = [empIdx EXCEPT ![u] = empIdx[u] + 1]
            /\ pc' = [pc EXCEPT ![u] = "employeeFind"]
       ELSE /\ empIdx' = empIdx
            /\ pc' = [pc EXCEPT ![u] =
                        IF existingData[u] /\ override[u] THEN "delete" ELSE "insert"]

EmployeeFind(u) ==
  /\ pc[u] = "employeeFind"
  /\ LET name == EmployeeNames(attendanceData[u])[empIdx[u]]
         id == FindEmployee(employees, name)
     IN  IF id = NoId
           THEN /\ pc' = [pc EXCEPT ![u] = "employeeCreate"]
                /\ UNCHANGED <<attendanceData, empIdx>>
           ELSE NextEmployee(u, AssignEmployeeId(attendanceData[u], name, id))
  /\ UNCHANGED <<attendance, employees, monthYear, override, existingData, worksheet,
                 reqNo, resp, before, nreq, nquery, queryResp>>

\* create of the employee store: a new identity, its _id is its position
CreateEmployee(coll, name) == Append(coll, name)

EmployeeCreate(u) ==
  /\ pc[u] = "employeeCreate"
  /\ LET name == EmployeeNames(attendanceData[u])[empIdx[u]]
     IN  /\ employees' = CreateEmployee(employees, name)
         /\ NextEmployee(u, AssignEmployeeId(attendanceData[u], name, Len(employees) + 1))
  /\ UNCHANGED <<attendance, monthYear, override, existingData, worksheet, reqNo, resp,
                 before, nreq, nquery, queryResp>>

\* mutant: the filter of the delete is lost, every record goes
DeleteManyUnfiltered(coll, my) == {}

\* Attendance.deleteMany({ monthYear })
DeleteMany(coll, my) == {r \in coll : r.monthYear # my}

DeleteExisting(u) ==
  /\ pc[u] = "delete"
  /\ attendance' = DeleteMany(attendance, monthYear[u])
  /\ pc' = [pc EXCEPT ![u] = "insert"]
  /\ UNCHANGED <<employees, monthYear, override, existingData, worksheet, attendanceData,
                 empIdx, reqNo, resp, before, nreq, nquery, queryResp>>

\* the documents insertMany makes of the first k records
Documents(records, k, n) ==
  {[records[i] EXCEPT !.id = <<n, i>>] : i \in 1..k}

\* insertBatch of the store: the documents are added, the store refuses none of
\* them (the persistence contract names no uniqueness constraint)
InsertMany(coll, documents) == coll \cup documents

\* Attendance.insertMany(attendanceData) succeeds; the statistics are computed
\* and the response is sent
InsertRecords(u) ==
  /\ pc[u] = "insert"
  /\ attendance' = InsertMany(attendance,
                               Documents(attendanceData[u], Len(attendanceData[u]), reqNo[u]))
  /\ Return(u, Success(monthYear[u], MonthStatistics(attendanceData[u])))
  /\ UNCHANGED <<employees, nreq, nquery, queryResp>>

\* Attendance.insertMany(attendanceData) throws after it stored the first k records
InsertFails(u) ==
  /\ pc[u] = "insert"
  /\ \E k \in 0..(Len(attendanceData[u]) - 1) :
       attendance' = InsertMany(attendance, Documents(attendanceData[u], k, reqNo[u]))
  /\ Return(u, Response(500, "Upload failed", NoMonthYear))
  /\ UNCHANGED <<employees, nreq, nquery, queryResp>>

\* an await of the employee loop or the delete rejects: the catch block answers
DatabaseFails(u) ==
  /\ pc[u] \in {"employeeFind", "employeeCreate", "delete"}
  /\ Return(u, Response(500, "Upload failed", NoMonthYear))
  /\ UNCHANGED <<attendance, employees, nreq, nquery, queryResp>>

(***************************************************************************)
(* The queries (api/routes).  Years and months are the numbers the path    *)
(* parameters spell; a path parameter is never empty.                      *)
(***************************************************************************)
\* a query is answered: only the response changes
Answer(response) ==
  /\ nquery' = nquery + 1
  /\ queryResp' = response
  /\ UNCHANGED <<attendance, employees, pc, monthYear, override, existingData, worksheet,
                 attendanceData, empIdx, reqNo, resp, before, nreq>>

\* the answer of GET /month and GET /previous-month for a monthYear
MonthAnswer(route, year, month, my) ==
  LET data == Partition(attendance, my)
  IN  IF data = {}
        THEN QueryResponse(route, year, month, 404, TRUE, my, data, NoStatistics)
        ELSE QueryResponse(route, year, month, 200, TRUE, my, data,
                           MonthStatistics(Family(data)))

\* GET /month/:year/:month
MonthQuery(year, month) ==
  /\ nquery < MaxQueries
  /\ Answer(MonthAnswer("month", year, month, MonthYear(year, month)))

\* GET /previous-month/:year/:month
PreviousMonthQuery(year, month) ==
  LET prevMonth == IF month - 1 = 0 THEN 12 ELSE month - 1
      prevYear == IF month - 1 = 0 THEN year - 1 ELSE year
  IN  /\ nquery < MaxQueries
      /\ Answer(MonthAnswer("previous-month", year, month, MonthYear(prevYear, prevMonth)))

(***************************************************************************)
(* GET /year-aggregated/:year.  The aggregate sends unrounded quotients:   *)
(* they are kept as fractions in lowest terms.                             *)
(***************************************************************************)
CurrentYear == 2023                \* new Date().getFullYear()

\* year < 2000 || year > new Date().getFullYear() + 1
YearIsInvalid(year) == year < 2000 \/ year > CurrentYear + 1

\* month < 1 || month > 12
MonthIsInvalid(month) == month < 1 \/ month > 12

RECURSIVE GCD(_, _)
GCD(a, b) == IF b = 0 THEN a ELSE GCD(b, a % b)

\* the number n/d, d > 0
Frac(n, d) == LET g == GCD(n, d) IN [n |-> n \div g, d |-> d \div g]
FracLess(a, b) == a.n * b.d < b.n * a.d
FracAdd(a, b) == Frac(a.n * b.d + b.n * a.d, a.d * b.d)

\* $match: { date: { $gte: <1 January of year>, $lt: <1 January of year + 1> } }
InYear(coll, year) == {r \in coll : CivilOf(r.date).year = year}

\* the _id of the first $group: employee and month of the date
MonthGroups(records) ==
  {[employeeId |-> r.employeeId, employeeName |-> r.employeeName,
    month |-> CivilOf(r.date).month] : r \in records}

\* the _id of the second $group
EmployeeGroups(records) ==
  {[employeeId |-> r.employeeId, employeeName |-> r.employeeName] : r \in records}

\* $sum: { $cond: [{ $eq: ["$isLeave", true] }, 1, 0] }
LeaveDays(recs) == Cardinality({r \in recs : r.isLeave})

\* one element of monthlyProductivity: the sums of the group of a month and
\* expectedHours > 0 ? (workedHours / expectedHours) * 100 : 0
MonthlyProductivity(records, emp, month) ==
  LET recs == {r \in records : /\ r.employeeId = emp.employeeId
                                /\ r.employeeName = emp.employeeName
                                /\ CivilOf(r.date).month = month}
      workedHours == Total([r \in recs |-> r.workedHours], recs)
      expectedHours == Total([r \in recs |-> r.expectedHours], recs)
  IN  [month |-> month,
       productivity |-> IF expectedHours > 0 THEN Frac(workedHours * 100, expectedHours)
                        ELSE Frac(0, 1),
       leavesTaken |-> LeaveDays(recs)]

Zero == Frac(0, 1)
Hundred == Frac(100, 1)
NoMonth == 0                       \* 'N/A'

\* mutant: every month counts in the average
ValidMonthsAll(monthly) == monthly

\* monthlyProductivity.filter(m => m.productivity > 0)
ValidMonths(monthly) == SelectSeq(monthly, LAMBDA m : FracLess(Zero, m.productivity))

RECURSIVE SumProductivity(_)
SumProductivity(monthly) ==
  IF monthly = <<>> THEN Zero
  ELSE FracAdd(Head(monthly).productivity, SumProductivity(Tail(monthly)))

\* validMonths.reduce((sum, m) => sum + m.productivity, 0) / validMonths.length, or 0
AvgProductivity(monthly) ==
  LET validMonths == ValidMonths(monthly)
      sum == SumProductivity(validMonths)
  IN  IF Len(validMonths) > 0 THEN Frac(sum.n, sum.d * Len(validMonths)) ELSE Zero

\* mutant: a month that uses up the allowance counts
ExceedsLimitInclusive(leavesTaken) == leavesTaken >= 2

\* month.leavesTaken > 2
ExceedsLimit(leavesTaken) == leavesTaken > 2

\* monthlyProductivity.forEach(month => ...): bestMonth, worstMonth and
\* exceededLimitMonths after the first k months
RECURSIVE ForEachMonth(_, _)
ForEachMonth(monthly, k) ==
  IF k = 0
    THEN [bestMonth |-> [month |-> NoMonth, productivity |-> Zero],
          worstMonth |-> [month |-> NoMonth, productivity |-> Hundred],
          exceededLimitMonths |-> 0]
  ELSE LET acc == ForEachMonth(monthly, k - 1)
           month == monthly[k]
       IN  [bestMonth |->
              IF FracLess(acc.bestMonth.productivity, month.productivity)
                THEN [month |-> month.month, productivity |-> month.productivity]
                ELSE acc.bestMonth,
            worstMonth |->
              IF FracLess(month.productivity, acc.worstMonth.productivity)
                 /\ FracLess(Zero, month.productivity)
                THEN [month |-> month.month, productivity |-> month.productivity]
                ELSE acc.worstMonth,
            exceededLimitMonths |->
              IF ExceedsLimit(month.leavesTaken) THEN acc.exceededLimitMonths + 1
              ELSE acc.exceededLimitMonths]

\* the entry of one employee: monthly is monthlyData in the order of the $push
YearStatistic(monthly) ==
  LET acc == ForEachMonth(monthly, Len(monthly))
  IN  [avgProductivity |-> AvgProductivity(monthly),
       exceededLimitMonths |-> acc.exceededLimitMonths,
       bestMonth |-> IF FracLess(Zero, acc.bestMonth.productivity)
                       THEN acc.bestMonth.month ELSE NoMonth,
       worstMonth |-> IF FracLess(acc.worstMonth.productivity, Hundred)
                        THEN acc.worstMonth.month ELSE NoMonth,
       monthlyData |-> monthly]

\* the months of an employee of the year, and the orders a $push can give them
MonthsOf(records, emp) ==
  {g.month : g \in {h \in MonthGroups(records) : /\ h.employeeId = emp.employeeId
                                                   /\ h.employeeName = emp.employeeName}}

Orderings(S) ==
  {f \in [1..Cardinality(S) -> S] : \A i, j \in 1..Cardinality(S) : f[i] = f[j] => i = j}

YearAggregated(year) ==
  /\ nquery < MaxQueries
  /\ LET records == InYear(attendance, year)
         emps == EmployeeGroups(records)
     IN  IF YearIsInvalid(year)
           THEN Answer(QueryResponse("year-aggregated", year, 0, 400, FALSE, NoMonthYear, {},
                                     NoStatistics))
         ELSE IF records = {}
           THEN Answer(QueryResponse("year-aggregated", year, 0, 404, TRUE, NoMonthYear, {},
                                     NoStatistics))
         ELSE \E order \in [emps -> UNION {Orderings(MonthsOf(records, e)) : e \in emps}] :
                /\ \A e \in emps : order[e] \in Orderings(MonthsOf(records, e))
                /\ Answer(QueryResponse("year-aggregated", year, 0, 200, TRUE, NoMonthYear,
                       records,
                       [e \in emps |->
                          YearStatistic([i \in 1..Len(order[e]) |->
                                           MonthlyProductivity(records, e, order[e][i])])]))

(***************************************************************************)
(* GET /workforce/:year/:month and GET /employees/productivity/:year.      *)
(***************************************************************************)
\* the groups of the workforce aggregate: one per day and employee
DailyBreakdown(records) ==
  {[date |-> r.date, employeeId |-> r.employeeId, employeeName |-> r.employeeName,
    workedHours |->
      LET recs == {q \in records : /\ q.date = r.date /\ q.employeeId = r.employeeId
                                    /\ q.employeeName = r.employeeName}
      IN  Total([q \in recs |-> q.workedHours], recs)] : r \in records}

\* new Date(year, month - 1, 1) is midnight of the server's time zone: west of
\* Greenwich the range begins and ends one UTC midnight later
Workforce(year, month) ==
  /\ nquery < MaxQueries
  /\ IF YearIsInvalid(year) \/ MonthIsInvalid(month)
       THEN Answer(QueryResponse("workforce", year, month, 400, FALSE, NoMonthYear, {},
                                 NoStatistics))
       ELSE \E west \in BOOLEAN :
              LET shift == IF west THEN 1 ELSE 0
                  records == {r \in attendance :
                                /\ r.date >= FirstOfMonth(year, month) + shift
                                /\ r.date < FirstOfMonth(year, month + 1) + shift}
              IN  Answer(QueryResponse("workforce", year, month, 200, TRUE, NoMonthYear,
                                       records, DailyBreakdown(records)))

EmployeesProductivity(year) ==
  /\ nquery < MaxQueries
  /\ LET records == InYear(attendance, year)
     IN  IF YearIsInvalid(year)
           THEN Answer(QueryResponse("employees/productivity", year, 0, 400, FALSE,
                                     NoMonthYear, {}, NoStatistics))
           ELSE Answer(QueryResponse("employees/productivity", year, 0, 200, TRUE,
                  NoMonthYear, records,
                  [e \in EmployeeGroups(records) |->
                     LET recs == {r \in records : /\ r.employeeId = e.employeeId
                                                   /\ r.employeeName = e.employeeName}
                         worked == Total([r \in recs |-> r.workedHours], recs)
                         expected == Total([r \in recs |-> r.expectedHours], recs)
                     IN  [totalWorkedHours |-> worked,
                          leaveDays |-> LeaveDays(recs),
                          productivity |-> IF expected > 0 THEN Frac(worked * 100, expected)
                                           ELSE Zero]]))

(***************************************************************************)
(* GET /year-comparison.  The averages are sent with one decimal: they are *)
(* kept in tenths.                                                         *)
(***************************************************************************)
\* mutant: the quotient is cut after one decimal
ToFixed1Cut(n, d) == (10 * n) \div d

\* parseFloat((n / d).toFixed(1)) in tenths: the quotient rounded to the nearest tenth
ToFixed1(n, d) == (20 * n + d) \div (2 * d)

\* $match: { date: { $gte: <1 January of from>, $lt: <1 January of to + 1> } }
InYears(coll, from, to) ==
  {r \in coll : CivilOf(r.date).year >= from /\ CivilOf(r.date).year <= to}

\* the _id of the first $group: { year: { $year: "$date" }, employeeId: "$employeeId" }
YearGroups(records) ==
  {[year |-> CivilOf(r.date).year, employeeId |-> r.employeeId] : r \in records}

\* the second $group and the map of comparisonData for one year: the sums of
\* the groups of the year are the sums of its records, employeeCount is
\* { $sum: 1 } over its groups.  Hours are in hundredths, the averages in tenths.
ComparisonEntry(records, year) ==
  LET recs == {r \in records : CivilOf(r.date).year = year}
      totalWorkedHours == Total([r \in recs |-> r.workedHours], recs)
      totalExpectedHours == Total([r \in recs |-> r.expectedHours], recs)
      totalLeaves == LeaveDays(recs)
      employeeCount == Cardinality({g \in YearGroups(records) : g.year = year})
  IN  [year |-> year,
       totalWorkedHours |-> totalWorkedHours,
       totalLeaves |-> totalLeaves,
       employeeCount |-> employeeCount,
       avgProductivity |-> IF totalExpectedHours > 0
                             THEN ToFixed1(totalWorkedHours * 100, totalExpectedHours)
                             ELSE 0,
       avgHours |-> IF employeeCount > 0
                      THEN ToFixed1(totalWorkedHours, 100 * employeeCount)
                      ELSE 0,
       avgLeavesPerEmployee |-> IF employeeCount > 0
                                  THEN ToFixed1(totalLeaves, employeeCount)
                                  ELSE 0]

\* GET /year-comparison: one entry for each of last year and this year that
\* has a group
YearComparison ==
  /\ nquery < MaxQueries
  /\ LET records == InYears(attendance, CurrentYear - 1, CurrentYear)
     IN  Answer(QueryResponse("year-comparison", 0, 0, 200, TRUE, NoMonthYear, records,
                              [year \in {g.year : g \in YearGroups(records)} |->
                                 ComparisonEntry(records, year)]))

(***************************************************************************)
(* Specifications.                                                         *)
(***************************************************************************)
\* the rows of the concurrent runs: one present, one on leave
ConcRows ==
  {Row("Asha", Mon, T0900, T1730), Row("Ravi", Mon, NoTime, NoTime)}

ConcMonths == {3}

ConcRequests == Requests(ConcRows, ConcMonths \cup {MissingMonth, 13}, MaxRows)

\* concurrent uploads and month queries
Next ==
  \/ \E u \in Uploads, req \in ConcRequests : UploadBegin(u, req, MaxRequests)
  \/ \E u \in Uploads : EmployeeFind(u)
  \/ \E u \in Uploads : EmployeeCreate(u)
  \/ \E u \in Uploads : DeleteExisting(u)
  \/ \E u \in Uploads : InsertRecords(u)
  \/ \E u \in Uploads : InsertFails(u)
  \/ \E u \in Uploads : DatabaseFails(u)
  \/ \E m \in ConcMonths : MonthQuery(Year, m)

Spec == Init /\ [][Next]_vars

\* the override runs: one more request, over worksheets of one kind of row
OverrideRequests ==
  Requests({Row("Asha", Mon, T0900, T1730)}, ConcMonths, MaxOverrideRows)

NextOverride ==
  \/ \E u \in Uploads, req \in OverrideRequests : UploadBegin(u, req, MaxOverrideRequests)
  \/ \E u \in Uploads : EmployeeFind(u)
  \/ \E u \in Uploads : EmployeeCreate(u)
  \/ \E u \in Uploads : DeleteExisting(u)
  \/ \E u \in Uploads : InsertRecords(u)
  \/ \E u \in Uploads : InsertFails(u)
  \/ \E u \in Uploads : DatabaseFails(u)
  \/ \E m \in ConcMonths : MonthQuery(Year, m)

SpecOverride == Init /\ [][NextOverride]_vars

\* the rows of the classification runs: every weekday, and a cell that is no
\* date, with every kind of punches: absent, unreadable, in order, equal, inverted
WeekDates == {NumberDate(45004 + i) : i \in 0..6}

Punches ==
  {<<NoTime, NoTime>>, <<NoTime, T1730>>, <<T0900, NoTime>>, <<BadTime, T1730>>,
   <<T0900, BadTime>>, <<T0900, T1730>>, <<T0900, T0900>>, <<T1730, T0900>>}

RichRows ==
  {Row("Asha", d, p[1], p[2]) : d \in WeekDates \cup {BadString}, p \in Punches}

\* worksheets of at most one row
RichRequests == Requests(RichRows, ConcMonths, 1)

\* one upload at a time over the rich rows
NextRows ==
  \/ \E req \in RichRequests : UploadBegin(1, req, MaxRequests)
  \/ EmployeeFind(1)
  \/ EmployeeCreate(1)
  \/ DeleteExisting(1)
  \/ InsertRecords(1)
  \/ InsertFails(1)
  \/ DatabaseFails(1)
  \/ \E m \in ConcMonths : MonthQuery(Year, m)

SpecRows == Init /\ [][NextRows]_vars

\* the rows of the runs with rows to skip: two rows that build a record, and
\* rows with a string in no format, a cell that is no date, a serial number
\* beyond the range of a Date, no name, no date
HugeNumber == NumberDate(UnixEpochDay + MaxDateDays + 1)

SkipRows ==
  {Row("Asha", Mon, T0900, T1730),
   Row("Ravi", StringDate(45010), NoTime, NoTime),
   Row("Asha", BadString, T0900, T1730),
   Row("Asha", OtherDate, T0900, T1730),
   Row("Asha", HugeNumber, T0900, T1730),
   Row(NoName, Mon, T0900, T1730),
   Row("Asha", EmptyDate, T0900, T1730)}

\* the requests of a set that never come to the delete: those without override
WithoutOverride(requests) == {req \in requests : ~req.override \/ req.corrupt}

SkipRequests == WithoutOverride(Requests(SkipRows, ConcMonths, MaxSkipRows))

\* one upload at a time, without override, over worksheets with rows to skip
NextSkip ==
  \/ \E req \in SkipRequests : UploadBegin(1, req, MaxSkipRequests)
  \/ EmployeeFind(1)
  \/ EmployeeCreate(1)
  \/ InsertRecords(1)
  \/ InsertFails(1)
  \/ DatabaseFails(1)
  \/ \E m \in ConcMonths : MonthQuery(Year, m)

SpecSkip == Init /\ [][NextSkip]_vars

\* the rows of the runs of the queries: a full Monday, a Monday on leave,
\* four hours of a Monday in April, a full day on a Saturday of May, a Sunday of June,
\* and a leave of somebody else
T1300 == 780

YearRows ==
  {Row("Asha", Mon, T0900, T1730),
   Row("Asha", Mon, NoTime, NoTime),
   Row("Asha", NumberDate(45019), T0900, T1300),
   Row("Asha", NumberDate(45052), T0900, T1730),
   Row("Asha", NumberDate(45081), NoTime, NoTime),
   Row("Ravi", Mon, NoTime, NoTime)}

YearRequests == WithoutOverride(Requests(YearRows, ConcMonths, MaxYearRows))

QueryYears == {1999, Year}
QueryMonths == {0, 3, 4, 13}

\* one upload at a time, without override, and the queries
NextYear ==
  \/ \E req \in YearRequests : UploadBegin(1, req, MaxYearRequests)
  \/ EmployeeFind(1)
  \/ EmployeeCreate(1)
  \/ InsertRecords(1)
  \/ InsertFails(1)
  \/ DatabaseFails(1)
  \/ \E y \in QueryYears, m \in QueryMonths : MonthQuery(y, m)
  \/ \E y \in QueryYears, m \in QueryMonths : PreviousMonthQuery(y, m)
  \/ \E y \in QueryYears : YearAggregated(y)
  \/ \E y \in QueryYears, m \in QueryMonths : Workforce(y, m)
  \/ \E y \in QueryYears : EmployeesProductivity(y)

SpecYear == Init /\ [][NextYear]_vars

\* the rows of the runs of the date cells: serial numbers from -2.25 to 2.25
\* in quarters, 45000 with and without a time of day, a number beyond the
\* range of a Date, a Date and a string
DateCells ==
  {NumberCell(q) : q \in (0 - 9)..9}
    \cup {NumberCell(45000 * Quarter + q) : q \in 0..3}
    \cup {HugeNumber, ObjectDate(45000), StringDate(45000), BadString}

DateRows == {Row("Asha", d, T0900, T1730) : d \in DateCells}

DateRequests == WithoutOverride(Requests(DateRows, ConcMonths, MaxDateRows))

\* one upload at a time, without override, over worksheets of date cells
NextDates ==
  \/ \E req \in DateRequests : UploadBegin(1, req, MaxDateRequests)
  \/ EmployeeFind(1)
  \/ EmployeeCreate(1)
  \/ InsertRecords(1)
  \/ InsertFails(1)
  \/ DatabaseFails(1)
  \/ \E m \in ConcMonths : MonthQuery(Year, m)

SpecDates == Init /\ [][NextDates]_vars

\* the rows of the runs of the year comparison: this year a full Monday, and
\* a Monday on leave of two others; last year four hours of a Saturday and a
\* Sunday; a full Monday of next year
CompareRows ==
  {Row("Asha", Mon, T0900, T1730),
   Row("Ravi", Mon, NoTime, NoTime),
   Row("Mira", Mon, NoTime, NoTime),
   Row("Asha", NumberDate(44926), T0900, T1300),
   Row("Ravi", NumberDate(44920), NoTime, NoTime),
   Row("Asha", NumberDate(45292), T0900, T1730)}

CompareRequests == WithoutOverride(Requests(CompareRows, ConcMonths, MaxCompareRows))

\* one upload at a time, without override, and the year comparison
NextCompare ==
  \/ \E req \in CompareRequests : UploadBegin(1, req, MaxCompareRequests)
  \/ EmployeeFind(1)
  \/ EmployeeCreate(1)
  \/ InsertRecords(1)
  \/ InsertFails(1)
  \/ DatabaseFails(1)
  \/ YearComparison

SpecCompare == Init /\ [][NextCompare]_vars

\* the runs of two partitions: uploads for March and April, with and without
\* override, of worksheets of at most one row, and every query
FrameMonths == {3, 4}

FrameRows ==
  {Row("Asha", Mon, T0900, T1730), Row("Ravi", NumberDate(45019), NoTime, NoTime)}

FrameRequests == Requests(FrameRows, FrameMonths, MaxFrameRows)

\* one upload at a time
NextFrame ==
  \/ \E req \in FrameRequests : UploadBegin(1, req, MaxFrameRequests)
  \/ EmployeeFind(1)
  \/ EmployeeCreate(1)
  \/ DeleteExisting(1)
  \/ InsertRecords(1)
  \/ InsertFails(1)
  \/ DatabaseFails(1)
  \/ \E m \in FrameMonths : MonthQuery(Year, m)
  \/ \E m \in FrameMonths : PreviousMonthQuery(Year, m)
  \/ YearAggregated(Year)
  \/ \E m \in FrameMonths : Workforce(Year, m)
  \/ YearComparison
  \/ EmployeesProductivity(Year)

SpecFrame == Init /\ [][NextFrame]_vars

TypeOK ==
  /\ \A u \in Uploads : pc[u] \in {"idle", "employeeFind", "employeeCreate", "delete", "insert"}
  /\ nreq \in 0..MaxOverrideRequests

(***************************************************************************)
(* Properties.                                                             *)
(***************************************************************************)
Running(u) == pc[u] # "idle"

\* the documents upload u is about to store
NewDocuments(u) == Documents(attendanceData[u], Len(attendanceData[u]), reqNo[u])

\* upload u answers in this step
Answers(u, code) == Running(u) /\ pc'[u] = "idle" /\ resp'.code = code

\* every record built or stored
AllRecords ==
  attendance \cup UNION {{attendanceData[u][i] : i \in 1..Len(attendanceData[u])} : u \in Uploads}

\* weekday of a day count, from the calendar: day 1 is Sunday 1899-12-31
IsSunday(day) == day % 7 = 1
IsSaturday(day) == day % 7 = 0

PunchesGiveHours(r) == TimeIsValid(r.inTime) /\ TimeIsValid(r.outTime) /\ r.outTime > r.inTime

\* C1: an upload without override for a monthYear that has a stored record is
\* answered 409 with that monthYear, and the step leaves the attendance and
\* employee collections as they were and ends the handler.
C1_DuplicateRejected ==
  [][nreq' = nreq + 1 =>
       \A u \in Uploads, req \in ConcRequests :
         (/\ pc[u] = "idle"
          /\ req.hasFile /\ req.month \in 1..12 /\ ~req.override
          /\ Partition(attendance, MonthYear(Year, req.month)) # {}
          /\ UploadBegin(u, req, MaxRequests))
         => /\ resp' = Response(409, "Data already exists", MonthYear(Year, req.month))
            /\ pc'[u] = "idle"
            /\ attendance' = attendance
            /\ employees' = employees]_vars

C1_Witness ==
  /\ resp.code = 409 /\ resp.error = "Data already exists" /\ resp.monthYear = MonthYear(Year, 3)
  /\ Partition(attendance, MonthYear(Year, 3)) # {}
  /\ \A u \in Uploads : ~Running(u)

\* C2: when an override upload for a monthYear that had records answers 200,
\* the partition holds exactly the documents of its own batch.
C2_OverrideReplaces ==
  [][\A u \in Uploads :
       (Answers(u, 200) /\ existingData[u] /\ override[u])
       => Partition(attendance', monthYear[u]) = NewDocuments(u)]_vars

\* C3: a month query answered while an override upload for that monthYear is
\* in progress sees the partition as it was before the upload or the complete
\* new batch.
C3_QuerySeesOldOrNew ==
  [][\A u \in Uploads :
       (/\ nquery' = nquery + 1
        /\ Running(u) /\ existingData[u] /\ override[u]
        /\ queryResp'.monthYear = monthYear[u])
       => queryResp'.records \in {before[u], NewDocuments(u)}]_vars

\* C4: when an upload without override answers 200, the partition holds exactly
\* the documents of its own batch: no other batch was inserted since its
\* existence check.
C4_UploadsSerialized ==
  [][\A u \in Uploads :
       (Answers(u, 200) /\ ~override[u])
       => Partition(attendance', monthYear[u]) = NewDocuments(u)]_vars

\* C5: when the insert of an override upload fails after its delete ran, the
\* partition holds the records it held before the upload.
C5_OverrideAtomicOnFailure ==
  [][\A u \in Uploads :
       (Answers(u, 500) /\ pc[u] = "insert" /\ existingData[u] /\ override[u])
       => Partition(attendance', monthYear[u]) = before[u]]_vars

\* C6: no two stored records of one partition have the same employee name and day.
C6_OneRecordPerEmployeeDay ==
  \A r1, r2 \in attendance :
    (r1.monthYear = r2.monthYear /\ r1.employeeName = r2.employeeName /\ r1.date = r2.date)
    => r1 = r2

\* C7: a record whose day is a Sunday is a Holiday with no leave, no expected
\* and no worked hours, whatever its punches.
C7_SundayIsHoliday ==
  \A r \in AllRecords :
    IsSunday(r.date) =>
      /\ r.status = "Holiday" /\ r.isHoliday /\ ~r.isLeave
      /\ r.expectedHours = 0 /\ r.workedHours = 0

\* a stored Sunday record with valid punches, while one with inverted punches is built
C7_Witness ==
  /\ \E r \in attendance : IsSunday(r.date) /\ r.inTime = T0900 /\ r.outTime = T1730
  /\ \E r \in AllRecords : IsSunday(r.date) /\ r.inTime = T1730 /\ r.outTime = T0900

\* C8: a record of Monday to Saturday is a Leave exactly when its worked hours
\* are 0, which is when a punch is absent, unreadable or the out-time is not
\* after the in-time, and Present otherwise; it expects 8.5 hours Monday to
\* Friday and 4 on Saturday; Monday 09:00-17:30 is 8.5 hours worked.
C8_WorkdayStatus ==
  \A r \in AllRecords :
    ~IsSunday(r.date) =>
      /\ r.status \in {"Leave", "Present"}
      /\ (r.status = "Leave") = (r.workedHours = 0)
      /\ (r.workedHours = 0) = ~PunchesGiveHours(r)
      /\ r.expectedHours = (IF IsSaturday(r.date) THEN 400 ELSE 850)
      /\ (r.date = 45005 /\ r.inTime = T0900 /\ r.outTime = T1730)
           => (r.workedHours = 850 /\ r.status = "Present" /\ r.expectedHours = 850)

\* Monday 09:00-17:30 is stored, while a Saturday with inverted punches is built
C8_Witness ==
  /\ \E r \in attendance :
       r.date = 45005 /\ r.inTime = T0900 /\ r.outTime = T1730 /\ r.status = "Present"
  /\ \E r \in AllRecords :
       IsSaturday(r.date) /\ r.inTime = T1730 /\ r.outTime = T0900 /\ r.status = "Leave"

\* C9: in every record isHoliday implies status Holiday and isLeave implies
\* status Leave.
C9_FlagsAgreeWithStatus ==
  \A r \in AllRecords :
    /\ r.isHoliday => r.status = "Holiday"
    /\ r.isLeave => r.status = "Leave"

\* a holiday record is stored, while a leave record is built
C9_Witness ==
  /\ \E r \in attendance : r.isHoliday /\ r.inTime = NoTime
  /\ \E r \in AllRecords : r.isLeave /\ r.inTime = BadTime

\* C10: worked hours are never negative: the hours of readable punches whose
\* out-time is before the in-time are 0, the hours of a record that lacks a
\* punch are 0, and every record has workedHours >= 0.
C10_WorkedHoursNotNegative ==
  \A r \in AllRecords :
    /\ r.workedHours >= 0
    /\ (TimeIsValid(r.inTime) /\ TimeIsValid(r.outTime) /\ r.outTime < r.inTime)
         => r.workedHours = 0
    /\ (r.inTime = NoTime \/ r.outTime = NoTime) => r.workedHours = 0

\* a workday record with the out-time before the in-time is stored, while one
\* without an in-time is built
C10_Witness ==
  /\ \E r \in attendance :
       ~IsSunday(r.date) /\ r.inTime = T1730 /\ r.outTime = T0900 /\ r.workedHours = 0
  /\ \E r \in AllRecords : ~IsSunday(r.date) /\ r.inTime = NoTime /\ r.outTime = T1730

\* a row with an employee name and a date value that can be normalized: a Date,
\* a string in one of the formats, or a number that gives a valid date
HasNameAndDate(row) ==
  /\ row.employeeName # NoName
  /\ \/ row.dateValue.type = "date"
     \/ row.dateValue.type = "string" /\ row.dateValue.n # NoDay
     \/ row.dateValue.type = "number" /\ row.dateValue.n # 0
          /\ DateIsValid(row.dateValue.n \div Quarter)

\* the documents an insert of upload u added, in the order of the batch
Inserted(u) ==
  [i \in {j \in 1..Len(worksheet[u]) : \E r \in attendance' \ attendance : r.id = <<reqNo[u], j>>} |->
     CHOOSE r \in attendance' \ attendance : r.id = <<reqNo[u], i>>]

\* C11: the records a successful upload inserts are, in order, one for each
\* row of the worksheet that has a name and a date that can be normalized,
\* wherever the other rows stand: as many records as such rows, the i-th with
\* the name, the day and the punches of the i-th such row.
C11_BadRowsSkipped ==
  [][\A u \in Uploads :
       Answers(u, 200) =>
         LET good == SelectSeq(worksheet[u], HasNameAndDate)
             docs == Inserted(u)
         IN  /\ Cardinality(attendance' \ attendance) = Len(good)
             /\ DOMAIN docs = 1..Len(good)
             /\ \A i \in 1..Len(good) :
                  /\ docs[i].employeeName = good[i].employeeName
                  /\ docs[i].date = good[i].dateValue.n \div
                                      (IF good[i].dateValue.type = "number" THEN Quarter ELSE 1)
                  /\ docs[i].inTime = good[i].inTime
                  /\ docs[i].outTime = good[i].outTime]_vars

\* the two records of a worksheet whose second row of three has a string in no
\* format are about to be inserted
C11_Witness ==
  /\ pc[1] = "insert"
  /\ Len(worksheet[1]) = 3 /\ Len(attendanceData[1]) = 2
  /\ HasNameAndDate(worksheet[1][1]) /\ HasNameAndDate(worksheet[1][3])
  /\ worksheet[1][2].dateValue = BadString

\* C12: a readable worksheet none of whose rows has a name and a date that can
\* be normalized, uploaded for a valid month with override or for a month
\* without records, is answered 400 'No valid data', and the step leaves the
\* attendance and employee collections as they were and ends the handler.
C12_EmptyBatchRejected ==
  [][nreq' = nreq + 1 =>
       \A req \in RichRequests :
         (/\ pc[1] = "idle"
          /\ req.hasFile /\ ~req.corrupt /\ req.month \in 1..12
          /\ (req.override \/ Partition(attendance, MonthYear(Year, req.month)) = {})
          /\ \A i \in 1..Len(req.rows) : ~HasNameAndDate(req.rows[i])
          /\ UploadBegin(1, req, MaxRequests))
         => /\ resp' = Response(400, "No valid data", NoMonthYear)
            /\ pc'[1] = "idle"
            /\ attendance' = attendance
            /\ employees' = employees]_vars

\* a batch without a valid row was answered while the month has records: it
\* was an override, and the records and the employee are still there
C12_Witness ==
  /\ resp.code = 400 /\ resp.error = "No valid data"
  /\ Partition(attendance, MonthYear(Year, 3)) # {}
  /\ employees # <<>>
  /\ pc[1] = "idle"

\* the query was given a year or a month out of range
OutOfRange(response) ==
  \/ response.year < 2000
  \/ /\ response.route \in {"month", "previous-month", "workforce"}
     /\ (response.month < 1 \/ response.month > 12)

\* C13: a query with year < 2000 or with a month outside 1..12 is answered 400
\* and its handler does not read the store.
C13_OutOfRangeRejected ==
  (queryResp.route # "" /\ OutOfRange(queryResp))
    => (queryResp.code = 400 /\ ~queryResp.read)

\* the sum of the values of a function
RECURSIVE Sum(_)
Sum(f) ==
  IF DOMAIN f = {} THEN 0
  ELSE LET x == CHOOSE x \in DOMAIN f : TRUE
       IN  f[x] + Sum([y \in DOMAIN f \ {x} |-> f[y]])

\* p hundredths of a percent is w/e*100, or 0 when e is 0
ExactQuotient(p, w, e) == IF e = 0 THEN p = 0 ELSE p * e = w * 10000

\* p hundredths of a percent is w/e*100 rounded to a hundredth, or 0 when e is 0
RoundedQuotient(p, w, e) ==
  IF e = 0 THEN p = 0
  ELSE 2 * (p * e - w * 10000) <= e /\ 2 * (w * 10000 - p * e) <= e

\* statistics has one statistic for each employee name of the family of
\* records: the sums of the expected and the worked hours, the number of
\* Leave records, and a productivity that is their quotient
StatisticsAre(statistics, family, Quotient(_, _, _)) ==
  /\ DOMAIN statistics = {family[i].employeeName : i \in DOMAIN family}
  /\ \A name \in DOMAIN statistics :
       LET idx == {i \in DOMAIN family : family[i].employeeName = name}
           e == Sum([i \in idx |-> family[i].expectedHours])
           w == Sum([i \in idx |-> family[i].workedHours])
       IN  /\ statistics[name].totalExpectedHours = e
           /\ statistics[name].totalWorkedHours = w
           /\ statistics[name].leavesTaken =
                Cardinality({i \in idx : family[i].status = "Leave"})
           /\ Quotient(statistics[name].productivity, w, e)

\* the statistics of every successful upload and of every answered month query
MonthStatisticsAre(Quotient(_, _, _)) ==
  /\ \A u \in Uploads :
       Answers(u, 200) => StatisticsAre(resp'.statistics, attendanceData[u], Quotient)
  /\ (/\ nquery' = nquery + 1
      /\ queryResp'.route \in {"month", "previous-month"}
      /\ queryResp'.code = 200)
     => StatisticsAre(queryResp'.statistics, Family(queryResp'.records), Quotient)

\* C14 as stated: in the statistics of an upload and of a month query every
\* employee has the sums of the expected and worked hours of the records, the
\* number of Leave records as leavesTaken, and productivity exactly
\* totalWorked/totalExpected*100, 0 when totalExpected is 0.
C14_MonthStatisticExact == [][MonthStatisticsAre(ExactQuotient)]_vars

\* C14 amended: the same, with productivity totalWorked/totalExpected*100 rounded
\* to two decimals.
C14_MonthStatistic == [][MonthStatisticsAre(RoundedQuotient)]_vars

\* a month query answered for an employee with a Holiday, a Leave and four
\* hours of a Monday: one leave, 4 of 17 hours, 23.53 percent
C14_Witness ==
  /\ queryResp.route = "month" /\ queryResp.code = 200
  /\ "Asha" \in DOMAIN queryResp.statistics
  /\ \E r \in queryResp.records : r.employeeName = "Asha" /\ r.status = "Holiday"
  /\ queryResp.statistics["Asha"].leavesTaken = 1
  /\ queryResp.statistics["Asha"].totalWorkedHours = 400
  /\ queryResp.statistics["Asha"].totalExpectedHours = 1700
  /\ queryResp.statistics["Asha"].productivity = 2353

\* the hours of a row by the schedule: none on a Sunday, 4 expected on a
\* Saturday and 8.5 on the other days; worked is the time between the punches
RowExpectedHours(row) ==
  LET day == ParseDate(row.dateValue)
  IN  IF IsSunday(day) THEN 0 ELSE IF IsSaturday(day) THEN 400 ELSE 850

RowWorkedHours(row) ==
  IF IsSunday(ParseDate(row.dateValue)) \/ ~PunchesGiveHours(row) THEN 0
  ELSE ((row.outTime - row.inTime) * 10 + 3) \div 6

\* C15: when an upload answers 200, the month query for its monthYear answers,
\* in the state the upload leaves, with statistics that have, for every
\* employee of the batch, the sums of the worked and expected hours of that
\* employee's rows, which are also the sums of the upload's response.
C15_RoundTrip ==
  [][\A u \in Uploads :
       Answers(u, 200) =>
         \E my \in {monthYear[u]}, rows \in {SelectSeq(worksheet[u], HasNameAndDate)} :
           \E q \in {MonthAnswer("month", my[1], my[2], my)'} :
             /\ q.code = 200
             /\ \A name \in {rows[i].employeeName : i \in 1..Len(rows)} :
                  LET idx == {i \in 1..Len(rows) : rows[i].employeeName = name}
                      w == Sum([i \in idx |-> RowWorkedHours(rows[i])])
                      e == Sum([i \in idx |-> RowExpectedHours(rows[i])])
                  IN  /\ name \in DOMAIN q.statistics
                      /\ q.statistics[name].totalWorkedHours = w
                      /\ q.statistics[name].totalExpectedHours = e
                      /\ resp'.statistics[name].totalWorkedHours = w
                      /\ resp'.statistics[name].totalExpectedHours = e]_vars

\* the year query answers 200 in this step
YearAnswered ==
  nquery' = nquery + 1 /\ queryResp'.route = "year-aggregated" /\ queryResp'.code = 200

\* the stored records of an employee in a calendar month of a year
RecordsOfMonth(year, emp, month) ==
  {r \in attendance : /\ r.employeeId = emp.employeeId
                       /\ r.employeeName = emp.employeeName
                       /\ r.date >= FirstOfMonth(year, month)
                       /\ r.date < FirstOfMonth(year, month + 1)}

MonthWorked(year, emp, month) ==
  Sum([r \in RecordsOfMonth(year, emp, month) |-> r.workedHours])
MonthExpected(year, emp, month) ==
  Sum([r \in RecordsOfMonth(year, emp, month) |-> r.expectedHours])

\* the months of productivity > 0: hours were expected, and hours were worked
ProductiveMonths(year, emp) ==
  {m \in 1..12 : MonthExpected(year, emp, m) > 0 /\ MonthWorked(year, emp, m) > 0}

\* worked/expected*100 of a productive month
Percent(year, emp, month) ==
  Frac(MonthWorked(year, emp, month) * 100, MonthExpected(year, emp, month))

RECURSIVE SumPercent(_, _, _)
SumPercent(year, emp, months) ==
  IF months = {} THEN Zero
  ELSE LET m == CHOOSE m \in months : TRUE
       IN  FracAdd(Percent(year, emp, m), SumPercent(year, emp, months \ {m}))

\* C16: in a year statistic avgProductivity is the sum of the productivities
\* of the months of productivity > 0 divided by the number of these months,
\* and 0 when there is no such month.
C16_AvgOverProductiveMonths ==
  [][YearAnswered =>
       \A emp \in DOMAIN queryResp'.statistics :
         LET months == ProductiveMonths(queryResp'.year, emp)
             sum == SumPercent(queryResp'.year, emp, months)
         IN  queryResp'.statistics[emp].avgProductivity =
               IF months = {} THEN Zero ELSE Frac(sum.n, sum.d * Cardinality(months))]_vars

\* a year statistic over a month on leave, a month of 4 of 8.5 hours and a
\* month of 8.5 of 4 hours: the average is (800/17 + 425/2) / 2
C16_Witness ==
  /\ queryResp.route = "year-aggregated" /\ queryResp.code = 200
  /\ \E emp \in DOMAIN queryResp.statistics :
       /\ Len(queryResp.statistics[emp].monthlyData) = 3
       /\ \E i \in 1..3 : queryResp.statistics[emp].monthlyData[i].productivity = Zero
       /\ queryResp.statistics[emp].avgProductivity = Frac(8825, 68)

\* C17: in a year statistic with a month of productivity > 0, bestMonth is a
\* month of the greatest productivity and worstMonth a month of the least
\* productivity among the months of productivity > 0, also when all of them
\* are at 100% or more; with no such month both are 'N/A'.
C17_BestAndWorstMonth ==
  [][YearAnswered =>
       \A emp \in DOMAIN queryResp'.statistics :
         LET year == queryResp'.year
             months == ProductiveMonths(year, emp)
             stat == queryResp'.statistics[emp]
         IN  IF months = {}
               THEN stat.bestMonth = NoMonth /\ stat.worstMonth = NoMonth
               ELSE /\ stat.bestMonth \in months
                    /\ \A m \in months :
                         ~FracLess(Percent(year, emp, stat.bestMonth), Percent(year, emp, m))
                    /\ stat.worstMonth \in months
                    /\ \A m \in months :
                         ~FracLess(Percent(year, emp, m), Percent(year, emp, stat.worstMonth))]_vars

\* the number of Leave records of an employee in a calendar month of a year
LeavesOfMonth(year, emp, month) ==
  Cardinality({r \in RecordsOfMonth(year, emp, month) : r.status = "Leave"})

\* C18: in a year statistic exceededLimitMonths is the number of calendar
\* months of the year in which the employee has more than 2 Leave records.
C18_ExceededLimitMonths ==
  [][YearAnswered =>
       \A emp \in DOMAIN queryResp'.statistics :
         queryResp'.statistics[emp].exceededLimitMonths =
           Cardinality({m \in 1..12 : LeavesOfMonth(queryResp'.year, emp, m) > 2})]_vars

\* a year statistic of an employee with three Leave records in March is answered
C18_Witness ==
  /\ queryResp.route = "year-aggregated" /\ queryResp.code = 200
  /\ \E emp \in DOMAIN queryResp.statistics :
       /\ queryResp.statistics[emp].exceededLimitMonths = 1
       /\ Len(queryResp.statistics[emp].monthlyData) = 1
       /\ queryResp.statistics[emp].monthlyData[1].leavesTaken = 3

\* C19: there is one employee for each name, every stored record carries the
\* _id of the employee of its name, and no employee is removed or renamed.
C19_OneIdentityPerName ==
  [][/\ \A i, j \in 1..Len(employees') : employees'[i] = employees'[j] => i = j
     /\ \A r \in attendance' :
          r.employeeId \in 1..Len(employees') /\ employees'[r.employeeId] = r.employeeName
     /\ Len(employees) <= Len(employees')
     /\ \A i \in 1..Len(employees) : employees'[i] = employees[i]]_vars

\* day k is the serial number q/4 without its fraction, rounded towards zero
IsTruncation(k, q) ==
  IF q >= 0 THEN k * Quarter <= q /\ q < (k + 1) * Quarter
  ELSE (k - 1) * Quarter < q /\ q <= k * Quarter

\* day k is the greatest whole number that is not above the serial number q/4
IsFloor(k, q) == k * Quarter <= q /\ q < (k + 1) * Quarter

\* every record a successful upload inserts for a row with a number as date
\* has the day Days tells, and 45000 gives 2023-03-15
NumberDatesAre(Days(_, _)) ==
  \A u \in Uploads :
    Answers(u, 200) =>
      LET good == SelectSeq(worksheet[u], HasNameAndDate)
          docs == Inserted(u)
      IN  \A i \in DOMAIN docs :
            good[i].dateValue.type = "number" =>
              /\ Days(docs[i].date, good[i].dateValue.n)
              /\ good[i].dateValue.n = 45000 * Quarter =>
                   (docs[i].date = 45000 /\ CivilOf(docs[i].date) = [year |-> 2023, month |-> 3])

\* C20 as stated: the day of a record built from a number n is n with its
\* fraction truncated, in days after 1899-12-30.
C20_NumberTruncated == [][NumberDatesAre(IsTruncation)]_vars

\* C20 amended: the day of a record built from a number n is the greatest whole
\* number not above n (n without its fraction when n >= 0), in days after
\* 1899-12-30.
C20_NumberFloored == [][NumberDatesAre(IsFloor)]_vars

\* the records of the serial numbers -0.5 and 45000.75 are about to be inserted
C20_Witness ==
  /\ pc[1] = "insert"
  /\ Len(worksheet[1]) = 1 /\ Len(attendanceData[1]) = 1
  /\ \/ worksheet[1][1].dateValue = NumberCell(0 - 2) /\ attendanceData[1][1].date = 0 - 1
     \/ worksheet[1][1].dateValue = NumberCell(180003) /\ attendanceData[1][1].date = 45000

\* the year comparison answers in this step
ComparisonAnswered ==
  nquery' = nquery + 1 /\ queryResp'.route = "year-comparison"

\* the stored records dated in a year
RecordsOfYear(year) ==
  {r \in attendance : r.date >= FirstOfMonth(year, 1) /\ r.date < FirstOfMonth(year + 1, 1)}

\* the identities of the employees with a record dated in a year
EmployeesOfYear(year) == {r.employeeId : r \in RecordsOfYear(year)}

\* tenths is the quotient n/d itself
IsQuotient(tenths, n, d) == tenths * d = 10 * n

\* tenths is n/d rounded to one decimal: no further from it than half a tenth
IsRoundedQuotient(tenths, n, d) ==
  2 * (tenths * d - 10 * n) <= d /\ 2 * (10 * n - tenths * d) <= d

\* the entries of a year comparison are those of the years with a record among
\* last year and this year; each has the totals of the stored records of its
\* year, the number of their employees, which is not 0, the averages per
\* employee as Average tells, and avgProductivity 0 without expected hours
ComparisonIs(Average(_, _, _)) ==
  ComparisonAnswered =>
       /\ DOMAIN queryResp'.statistics =
            {y \in {CurrentYear - 1, CurrentYear} : RecordsOfYear(y) # {}}
       /\ \A y \in DOMAIN queryResp'.statistics :
            LET entry == queryResp'.statistics[y]
                recs == RecordsOfYear(y)
            IN  /\ entry.totalWorkedHours = Sum([r \in recs |-> r.workedHours])
                /\ entry.totalLeaves = Cardinality({r \in recs : r.isLeave})
                /\ entry.employeeCount = Cardinality(EmployeesOfYear(y))
                /\ entry.employeeCount > 0
                /\ Average(entry.avgHours, entry.totalWorkedHours, 100 * entry.employeeCount)
                /\ Average(entry.avgLeavesPerEmployee, entry.totalLeaves, entry.employeeCount)
                /\ Sum([r \in recs |-> r.expectedHours]) = 0 => entry.avgProductivity = 0

\* C21 as stated: each year-comparison entry has employeeCount equal to the
\* number of distinct employees with a record dated in the year, avgHours equal
\* to totalWorkedHours / employeeCount, avgLeavesPerEmployee equal to
\* totalLeaves / employeeCount, and avgProductivity 0 when the total expected
\* hours of the year are 0.
C21_YearComparisonExact == [][ComparisonIs(IsQuotient)]_vars

\* C21: each year-comparison entry has employeeCount equal to the number of
\* distinct employees with a record dated in the year, avgHours equal to
\* totalWorkedHours / employeeCount rounded to one decimal, avgLeavesPerEmployee
\* equal to totalLeaves / employeeCount rounded to one decimal, and
\* avgProductivity 0 when the total expected hours of the year are 0.
C21_YearComparison == [][ComparisonIs(IsRoundedQuotient)]_vars

\* a comparison of two years: this year three employees with two leaves and
\* 8.5 hours between them (0.7 leaves and 2.8 hours each), last year one
\* employee on a Sunday, without expected hours
C21_Witness ==
  /\ queryResp.route = "year-comparison"
  /\ DOMAIN queryResp.statistics = {CurrentYear - 1, CurrentYear}
  /\ queryResp.statistics[CurrentYear].employeeCount = 3
  /\ queryResp.statistics[CurrentYear].totalLeaves = 2
  /\ queryResp.statistics[CurrentYear].avgLeavesPerEmployee = 7
  /\ queryResp.statistics[CurrentYear].avgHours = 28
  /\ queryResp.statistics[CurrentYear - 1].employeeCount = 1
  /\ queryResp.statistics[CurrentYear - 1].avgProductivity = 0
  /\ \E r \in queryResp.records : r.isHoliday

\* the YYYY-MM of a day
MonthOfDay(day) == MonthYear(CivilOf(day).year, CivilOf(day).month)

\* C22: every stored attendance record has the monthYear of its own day: the
\* partition it is stored under is the calendar month the year aggregations
\* put it in by its date.
C22_MonthLabelOfDay ==
  \A r \in attendance : r.monthYear = MonthOfDay(r.date)

\* C23: no record has the status Weekend: a record of a Sunday is a Holiday, a
\* record of a Saturday is Present or a Leave as on a working day, and every
\* record is Present, a Leave or a Holiday.
C23_NoWeekendStatus ==
  \A r \in AllRecords :
    /\ r.status # "Weekend"
    /\ r.status \in {"Present", "Leave", "Holiday"}
    /\ r.dayOfWeek = "Sunday" => r.status = "Holiday"
    /\ r.dayOfWeek = "Saturday" => r.status \in {"Present", "Leave"}

\* a Saturday of 09:00-17:30 is stored as Present, while the record of a
\* Sunday without punches is built
C23_Witness ==
  /\ \E r \in attendance :
       /\ r.dayOfWeek = "Saturday" /\ r.inTime = T0900 /\ r.outTime = T1730
       /\ r.status = "Present"
  /\ \E r \in AllRecords :
       /\ r.dayOfWeek = "Sunday" /\ r.inTime = NoTime /\ r.outTime = NoTime
       /\ r.status = "Holiday"

\* upload u takes this step
Moves(u) == Running(u) /\ <<pc[u], empIdx[u]>>' # <<pc[u], empIdx[u]>>

\* the order in which the months of each employee were pushed, in the answer
\* of a year query
PushOrder(response) ==
  IF response.route = "year-aggregated" /\ response.code = 200
    THEN [e \in DOMAIN response.statistics |->
            [i \in DOMAIN response.statistics[e].monthlyData |->
               response.statistics[e].monthlyData[i].month]]
    ELSE <<>>

\* this step answers the query of the last answer over again: the same route
\* and parameters, the same records read, delivered by the store in the same order
AsksAgain ==
  /\ nquery' = nquery + 1
  /\ queryResp'.route = queryResp.route
  /\ queryResp'.year = queryResp.year
  /\ queryResp'.month = queryResp.month
  /\ queryResp'.read /\ queryResp.read
  /\ queryResp'.records = queryResp.records
  /\ PushOrder(queryResp') = PushOrder(queryResp)

\* C24: a step of an upload for a monthYear leaves every stored record of
\* another monthYear in the store as it is, whether the upload goes on, answers
\* 200, is rejected or fails; the step that receives an upload writes nothing;
\* a query changes neither the attendance nor the employee collection, and the
\* same query over the same records is answered with the same statistics.
C24_Frame ==
  [][/\ \A u \in Uploads :
          Moves(u) => \A r \in attendance : r.monthYear # monthYear[u] => r \in attendance'
     /\ nreq' = nreq + 1 => (attendance' = attendance /\ employees' = employees)
     /\ nquery' = nquery + 1 => (attendance' = attendance /\ employees' = employees)
     /\ AsksAgain => (queryResp'.code = queryResp.code
                       /\ queryResp'.statistics = queryResp.statistics)]_vars

\* after a first upload for March was replaced by the third upload, with
\* override, the record the second upload stored for April is still there,
\* and two queries were answered, the last one with statistics
C24_Witness ==
  /\ \E r \in attendance : r.monthYear = MonthYear(Year, 3) /\ r.id[1] = 3
  /\ \E r \in attendance : r.monthYear = MonthYear(Year, 4) /\ r.id[1] = 2
  /\ \A r \in attendance : r.id[1] # 1
  /\ pc[1] = "idle" /\ resp.code = 200
  /\ nquery = 2
  /\ queryResp.code = 200 /\ queryResp.statistics # NoStatistics

====
